---- MODULE Spec2Model ----
(***************************************************************************)
(* Fraud scoring core of aquilinoFrancisco/fraud-detection:                *)
(*   src/main.py    FallbackFraudEngine, engine selection, /predict,       *)
(*                  /predict/batch                                         *)
(*   src/models.py  FraudDetectionEngine (trained path)                    *)
(*                                                                         *)
(* Number representation                                                   *)
(*   probabilities before rounding : integers in units of 1/10000          *)
(*   fraud_probability of a result : integer in units of 1/1000            *)
(*                                   (the value after round(p, 3))         *)
(*   feature values, points totals : integers in units of 1/100            *)
(*   risk_score, breakdown values  : integers (points)                     *)
(* Strings are TLA+ strings; a Python dict is a function whose DOMAIN is   *)
(* its key set; an insertion-ordered dict that is read in order is a       *)
(* sequence of <<key, value>> pairs; Python None is the value PyNone.      *)
(* A feature / scorecard variable name is the pair <<stem, suffix>>, e.g.  *)
(* "Make_WoE" is <<"Make", "_WoE">> and "Claim_Urgency" is                 *)
(* <<"Claim_Urgency", "">>.  A text "HEAD - tail" is <<"HEAD", "tail">>.   *)
(***************************************************************************)
EXTENDS Integers, Sequences, FiniteSets, TLC

VARIABLES
    phase,             \* "boot" before main.py:302-327 has run, then "serving"
    ENGINE_AVAILABLE,  \* main.py:32-39, result of `from models import ...`
    disk,              \* models_path: file name -> content, for the files present
    fraud_engine,      \* main.py:302 global: NoEngine, Fallback or Trained
    artifacts,         \* attributes set by load_models on the trained engine
    load_calls,        \* number of load_models calls so far
    call,              \* the operation in progress, its input and its outcome
    memo               \* a claim scored by an earlier operation and its outcome

vars ==
    <<phase, ENGINE_AVAILABLE, disk, fraud_engine, artifacts, load_calls, call, memo>>

-----------------------------------------------------------------------------
(* Bounds of the model *)

MaxBatch == 2

-----------------------------------------------------------------------------
(* Generic helpers *)

PyNone == "<None>"

Abs(x) == IF x < 0 THEN -x ELSE x

Min(a, b) == IF a < b THEN a ELSE b

Max(a, b) == IF a > b THEN a ELSE b

\* Faulty variant of PyInt: floor, which differs below zero.
PyInt_floor(n, scale) == n \div scale

\* Python int(x) of a real x held as n/scale: truncation toward zero.
PyInt(n, scale) == IF n >= 0 THEN n \div scale ELSE -((-n) \div scale)

\* Python round(p, 3) of p held in units of 1/10000, result in units of
\* 1/1000: nearest, exact ties to the even neighbour.
Round3(p) ==
    LET q == p \div 10
        r == p % 10
    IN  IF r < 5 THEN q
        ELSE IF r > 5 THEN q + 1
        ELSE IF q % 2 = 0 THEN q ELSE q + 1

RECURSIVE SumSeq(_)
SumSeq(s) == IF s = <<>> THEN 0 ELSE Head(s) + SumSeq(Tail(s))

\* Faulty variant of Take: the whole list, the slice forgotten.
Take_all(s, n) == s

\* list[:n]
Take(s, n) == SubSeq(s, 1, Min(n, Len(s)))

\* dict.get(key, default)
Get(d, k, default) == IF k \in DOMAIN d THEN d[k] ELSE default

\* Ordered dict as a sequence of <<key, value>> pairs.
Keys(d) == {d[i][1] : i \in 1..Len(d)}

HasKey(d, k) == k \in Keys(d)

Lookup(d, k) == d[CHOOSE i \in 1..Len(d) : d[i][1] = k][2]

\* d[k] = v : overwrite in place when k is already a key, else append.
DictSet(d, k, v) ==
    IF HasKey(d, k)
    THEN [i \in 1..Len(d) |-> IF d[i][1] = k THEN <<k, v>> ELSE d[i]]
    ELSE Append(d, <<k, v>>)

\* [v for k, v in d.items() if k != skip]
RECURSIVE ValuesExcept(_, _)
ValuesExcept(d, skip) ==
    IF d = <<>> THEN <<>>
    ELSE IF Head(d)[1] = skip THEN ValuesExcept(Tail(d), skip)
    ELSE <<Head(d)[2]>> \o ValuesExcept(Tail(d), skip)

-----------------------------------------------------------------------------
(* Claim records *)

Fields == {"Days_Policy_Claim", "PolicyType", "Make", "AgeOfPolicyHolder",
           "VehiclePrice", "AccidentArea", "AgeOfVehicle"}

Absent == "<absent>"

\* Values a caller may put in each field; Absent stands for a missing key.
\* "Tesla" is a Make outside the trained enumeration.
FieldValues ==
    [f \in Fields |->
        CASE f = "Days_Policy_Claim" -> {"1 to 7", "more than 30", Absent}
          [] f = "PolicyType"        -> {"Sport - All Perils", "Sedan - Collision",
                                         PyNone, Absent}
          [] f = "Make"              -> {"BMW", "Honda", "Tesla"}
          [] f = "AgeOfPolicyHolder" -> {"21 to 25", "31 to 35"}
          [] f = "VehiclePrice"      -> {"more than 69000", "20000 to 29000"}
          [] f = "AccidentArea"      -> {"Rural", "Urban", Absent}
          [] f = "AgeOfVehicle"      -> {"2 years", Absent}]

\* dict literal with the seven fields; a field whose value is Absent is no key.
MkClaim(d, p, m, a, v, r, g) ==
    LET t == [f \in Fields |->
                CASE f = "Days_Policy_Claim" -> d
                  [] f = "PolicyType"        -> p
                  [] f = "Make"              -> m
                  [] f = "AgeOfPolicyHolder" -> a
                  [] f = "VehiclePrice"      -> v
                  [] f = "AccidentArea"      -> r
                  [] f = "AgeOfVehicle"      -> g]
    IN  [k \in {f \in Fields : t[f] # Absent} |-> t[k]]

Claims ==
    {MkClaim(d, p, m, a, v, r, g) :
        d \in FieldValues["Days_Policy_Claim"], p \in FieldValues["PolicyType"],
        m \in FieldValues["Make"], a \in FieldValues["AgeOfPolicyHolder"],
        v \in FieldValues["VehiclePrice"], r \in FieldValues["AccidentArea"],
        g \in FieldValues["AgeOfVehicle"]}

\* The words of each text the code searches with `in` (a substring test).
Words(s) ==
    CASE s = "Sport - All Perils" -> <<"Sport", "-", "All", "Perils">>
      [] s = "Sedan - Collision"  -> <<"Sedan", "-", "Collision">>
      [] s = "All Perils"         -> <<"All", "Perils">>
      [] s = ""                   -> <<>>

\* needle in hay, for two Python str
StrContains(needle, hay) ==
    LET n == Words(needle)
        h == Words(hay)
    IN  \E i \in 0..(Len(h) - Len(n)) :
            \A j \in 1..Len(n) : h[i + j] = n[j]

-----------------------------------------------------------------------------
(* Outcomes of a call *)

Returned(r) == [kind |-> "return", result |-> r]

Raised(e) == [kind |-> "raise", exc |-> e]

-----------------------------------------------------------------------------
(* FallbackFraudEngine, main.py:173-278 *)

base_score == 650

base_fraud_rate == 350

\* Faulty variant of risk_weights: the urgent-claim weight typed as 0.15.
risk_weights_typo ==
    [urgent_claim |-> 1500, complex_policy |-> 900, premium_vehicle |-> 1200,
     young_driver |-> 700, luxury_price |-> 800, rural_area |-> 500]

risk_weights ==
    [urgent_claim |-> 1800, complex_policy |-> 900, premium_vehicle |-> 1200,
     young_driver |-> 700, luxury_price |-> 800, rural_area |-> 500]

RuleNames == <<"urgent_claim", "complex_policy", "premium_vehicle",
               "young_driver", "luxury_price", "rural_area">>

\* main.py:211 `'All Perils' in claim_data.get('PolicyType', '')` raises
\* TypeError when the value is None (a str is required on the right).
FallbackRaises(claim_data) == Get(claim_data, "PolicyType", "") = PyNone

\* The six conditions of main.py:204-239, in the order of the code.
FallbackRules(claim_data) ==
    [urgent_claim    |-> Get(claim_data, "Days_Policy_Claim", PyNone) = "1 to 7",
     complex_policy  |-> StrContains("All Perils", Get(claim_data, "PolicyType", "")),
     premium_vehicle |-> Get(claim_data, "Make", PyNone) \in {"BMW", "Mercedes", "Audi"},
     young_driver    |-> Get(claim_data, "AgeOfPolicyHolder", PyNone)
                            \in {"18 to 20", "21 to 25"},
     luxury_price    |-> Get(claim_data, "VehiclePrice", PyNone)
                            \in {"60000 to 69000", "more than 69000"},
     rural_area      |-> Get(claim_data, "AccidentArea", PyNone) = "Rural"]

\* Faulty variant of FallbackPoints: the young-driver penalty typed as -10.
FallbackPoints_typo ==
    [urgent_claim    |-> <<"Claim Timing", -25, 10>>,
     complex_policy  |-> <<"Policy Type", -15, 5>>,
     premium_vehicle |-> <<"Vehicle Make", -20, 5>>,
     young_driver    |-> <<"Driver Age", -10, 5>>,
     luxury_price    |-> <<"Vehicle Value", -10, 0>>,
     rural_area      |-> <<"Accident Area", -8, 2>>]

\* Faulty variant of FallbackPoints: the two deltas of the rural rule swapped.
FallbackPoints_swapped ==
    [urgent_claim    |-> <<"Claim Timing", -25, 10>>,
     complex_policy  |-> <<"Policy Type", -15, 5>>,
     premium_vehicle |-> <<"Vehicle Make", -20, 5>>,
     young_driver    |-> <<"Driver Age", -15, 5>>,
     luxury_price    |-> <<"Vehicle Value", -10, 0>>,
     rural_area      |-> <<"Accident Area", 2, -8>>]

\* Faulty variant of FallbackPoints: the All Perils penalty typed as -40.
FallbackPoints_heavy ==
    [urgent_claim    |-> <<"Claim Timing", -25, 10>>,
     complex_policy  |-> <<"Policy Type", -40, 5>>,
     premium_vehicle |-> <<"Vehicle Make", -20, 5>>,
     young_driver    |-> <<"Driver Age", -15, 5>>,
     luxury_price    |-> <<"Vehicle Value", -10, 0>>,
     rural_area      |-> <<"Accident Area", -8, 2>>]

\* Display name and the (fired, not fired) point deltas of each rule.
FallbackPoints ==
    [urgent_claim    |-> <<"Claim Timing", -25, 10>>,
     complex_policy  |-> <<"Policy Type", -15, 5>>,
     premium_vehicle |-> <<"Vehicle Make", -20, 5>>,
     young_driver    |-> <<"Driver Age", -15, 5>>,
     luxury_price    |-> <<"Vehicle Value", -10, 0>>,
     rural_area      |-> <<"Accident Area", -8, 2>>]

FallbackFactorText ==
    [urgent_claim    |-> "Claim reportado muy rapidamente (1-7 dias)",
     complex_policy  |-> "Poliza All Perils (mayor complejidad)",
     premium_vehicle |-> "Vehiculo de marca premium",
     young_driver    |-> "Conductor joven (alto riesgo)",
     luxury_price    |-> "Vehiculo de alto valor",
     rural_area      |-> "Accidente en area rural"]

\* fraud_prob after the six `+=` of main.py:199-240, before the clamp.
RECURSIVE FallbackProbSum(_, _)
FallbackProbSum(fired, i) ==
    IF i = 0 THEN base_fraud_rate
    ELSE FallbackProbSum(fired, i - 1)
         + (IF fired[RuleNames[i]] THEN risk_weights[RuleNames[i]] ELSE 0)

\* Faulty variant of FallbackClamp: the upper bound typed as 0.5.
FallbackClamp_tight(p) == Min(5000, Max(50, p))

\* main.py:247 min(0.95, max(0.005, fraud_prob))
FallbackClamp(p) == Min(9500, Max(50, p))

\* risk_factors after the six rules.
RECURSIVE FallbackFactors(_, _)
FallbackFactors(fired, i) ==
    IF i = 0 THEN <<>>
    ELSE FallbackFactors(fired, i - 1)
         \o (IF fired[RuleNames[i]] THEN <<FallbackFactorText[RuleNames[i]]>> ELSE <<>>)

\* main.py:201 scorecard = {"Base Score": self.base_score}
FallbackScorecardInit == <<<<"Base Score", base_score>>>>

\* scorecard dict after main.py:201-244.
RECURSIVE FallbackScorecard(_, _)
FallbackScorecard(fired, i) ==
    IF i = 0 THEN FallbackScorecardInit
    ELSE DictSet(FallbackScorecard(fired, i - 1),
                 FallbackPoints[RuleNames[i]][1],
                 IF fired[RuleNames[i]] THEN FallbackPoints[RuleNames[i]][2]
                                        ELSE FallbackPoints[RuleNames[i]][3])

\* Faulty variant of FallbackFinalScore: the filter on "Base Score" forgotten,
\* so the base is counted twice.
FallbackFinalScore_unfiltered(scorecard) ==
    base_score + SumSeq([i \in 1..Len(scorecard) |-> scorecard[i][2]])

\* main.py:248-249
FallbackFinalScore(scorecard) ==
    base_score + SumSeq(ValuesExcept(scorecard, "Base Score"))

\* Faulty variant of FallbackClassify: the HIGH threshold typed as 590.
FallbackClassify_typo(final_score) ==
    IF final_score <= 590
    THEN [risk_level |-> "HIGH", confidence |-> "High",
          recommendation |-> <<"INVESTIGATE IMMEDIATELY", "Multiple high-risk indicators">>]
    ELSE IF final_score <= 620
    THEN [risk_level |-> "MEDIUM", confidence |-> "Medium",
          recommendation |-> <<"DETAILED REVIEW REQUIRED", "Some concerning factors">>]
    ELSE [risk_level |-> "LOW", confidence |-> "High",
          recommendation |-> <<"STANDARD PROCESSING", "Normal risk profile">>]

\* main.py:252-263
FallbackClassify(final_score) ==
    IF final_score <= 580
    THEN [risk_level |-> "HIGH", confidence |-> "High",
          recommendation |-> <<"INVESTIGATE IMMEDIATELY", "Multiple high-risk indicators">>]
    ELSE IF final_score <= 620
    THEN [risk_level |-> "MEDIUM", confidence |-> "Medium",
          recommendation |-> <<"DETAILED REVIEW REQUIRED", "Some concerning factors">>]
    ELSE [risk_level |-> "LOW", confidence |-> "High",
          recommendation |-> <<"STANDARD PROCESSING", "Normal risk profile">>]

\* Faulty variant of FallbackVersion: the tag of the trained engine.
FallbackVersion_untagged == <<"1.0.0", "production">>

\* main.py:276 "model_version": "1.0.0-fallback"
FallbackVersion == <<"1.0.0", "fallback">>

\* FallbackFraudEngine.calculate_fraud_score, main.py:191-278
FallbackCalculateFraudScore(claim_data) ==
    IF FallbackRaises(claim_data) THEN Raised("TypeError")
    ELSE
    LET fired       == FallbackRules(claim_data)
        fraud_prob  == FallbackClamp(FallbackProbSum(fired, Len(RuleNames)))
        scorecard   == FallbackScorecard(fired, Len(RuleNames))
        final_score == FallbackFinalScore(scorecard)
        tier        == FallbackClassify(final_score)
    IN  Returned(
          [fraud_probability       |-> Round3(fraud_prob),
           risk_score              |-> final_score,
           risk_level              |-> tier.risk_level,
           confidence              |-> tier.confidence,
           key_risk_factors        |-> Take(FallbackFactors(fired, Len(RuleNames)), 4),
           scorecard_breakdown     |-> scorecard,
           business_recommendation |-> tier.recommendation,
           model_version           |-> FallbackVersion])

-----------------------------------------------------------------------------
(* Trained artifacts, models.py:24-46 and train_model.py *)

required_files == {"logistic_model.pkl", "xgb_model.pkl", "woe_mappings.pkl",
                   "scorecard.pkl", "metadata.pkl"}

BusinessFlags == {<<"Claim_Urgency", "">>, <<"Luxury_Vehicle", "">>,
                  <<"Young_Driver", "">>, <<"Complex_Policy", "">>,
                  <<"Premium_Make", "">>}

\* A predictor artifact stands for a fitted classifier: it was fitted on
\* n_features_in columns and answers base + step per business flag set in X
\* (thousandths), never outside [0, 1].
Predictor(n, base, step) == [n_features_in |-> n, base |-> base, step |-> step]

\* Feature list written by train_model.py:173-178: WoE columns, then numeric
\* columns, then business flags.
TrainedFeatures ==
    << <<"Make", "_WoE">>, <<"PolicyType", "_WoE">>, <<"AccidentArea", "_WoE">>,
       <<"VehiclePrice", "_WoE">>,
       <<"AgeOfPolicyHolder", "_Numeric">>, <<"VehiclePrice", "_Numeric">>,
       <<"AgeOfVehicle", "_Numeric">>, <<"Days_Policy_Claim", "_Numeric">>,
       <<"Claim_Urgency", "">>, <<"Luxury_Vehicle", "">>, <<"Young_Driver", "">>,
       <<"Complex_Policy", "">>, <<"Premium_Make", "">> >>

\* WoE tables (hundredths), keyed by field and raw value.
TrainedWoE ==
    [Make         |-> [BMW |-> 45, Honda |-> -20],
     PolicyType   |-> ("Sport - All Perils" :> 60 @@ "Sedan - Collision" :> -35),
     AccidentArea |-> [Rural |-> 25, Urban |-> -5],
     VehiclePrice |-> ("more than 69000" :> 80 @@ "20000 to 29000" :> -10)]

Row(variable, points) == [Variable |-> variable, Points |-> points]

\* Scorecard of bundle A: one row per feature (train_model.py:252-257),
\* integer points per unit, zero for the wide-range numeric columns.
ScorecardA ==
    << Row(<<"Make", "_WoE">>, -20), Row(<<"PolicyType", "_WoE">>, -15),
       Row(<<"AccidentArea", "_WoE">>, -1), Row(<<"VehiclePrice", "_WoE">>, -10),
       Row(<<"AgeOfPolicyHolder", "_Numeric">>, 0),
       Row(<<"VehiclePrice", "_Numeric">>, 0),
       Row(<<"AgeOfVehicle", "_Numeric">>, 1),
       Row(<<"Days_Policy_Claim", "_Numeric">>, 0),
       Row(<<"Claim_Urgency", "">>, -30), Row(<<"Luxury_Vehicle", "">>, -8),
       Row(<<"Young_Driver", "">>, -12), Row(<<"Complex_Policy", "">>, -14),
       Row(<<"Premium_Make", "">>, -18) >>

\* Scorecard of bundle B: fewer features, a row whose variable is no feature.
FeaturesB ==
    << <<"Make", "_WoE">>, <<"Days_Policy_Claim", "_Numeric">>,
       <<"Claim_Urgency", "">>, <<"Premium_Make", "">> >>

ScorecardB ==
    << Row(<<"Make", "_WoE">>, -3), Row(<<"Days_Policy_Claim", "_Numeric">>, 1),
       Row(<<"Claim_Urgency", "">>, -40), Row(<<"Premium_Make", "">>, -25),
       Row(<<"Sex", "_WoE">>, -9) >>

Pickled(obj) == [corrupt |-> FALSE, obj |-> obj]

CorruptPickle == [corrupt |-> TRUE, obj |-> <<>>]

Metadata(feature_names) ==
    [feature_names |-> feature_names, auc_logistic |-> 847, auc_xgb |-> 835]

Bundle(lr, xgb, woe, scorecard, base_points, metadata) ==
    [f \in required_files |->
        CASE f = "logistic_model.pkl" -> lr
          [] f = "xgb_model.pkl"      -> xgb
          [] f = "woe_mappings.pkl"   -> Pickled(woe)
          [] f = "scorecard.pkl"      ->
                 Pickled([scorecard |-> scorecard, base_points |-> base_points])
          [] f = "metadata.pkl"       -> metadata]

BundleA ==
    Bundle(Pickled(Predictor(13, 40, 150)), Pickled(Predictor(13, 25, 185)),
           TrainedWoE, ScorecardA, 64137, Pickled(Metadata(TrainedFeatures)))

BundleB ==
    Bundle(Pickled(Predictor(4, 333, 333)), Pickled(Predictor(4, 0, 500)),
           [Make |-> TrainedWoE.Make], ScorecardB, 58090,
           Pickled(Metadata(FeaturesB)))

\* The models were fitted on another feature list than the one in metadata.
BundleMismatch ==
    Bundle(Pickled(Predictor(13, 40, 150)), Pickled(Predictor(4, 0, 500)),
           [Make |-> TrainedWoE.Make], ScorecardB, 58090,
           Pickled(Metadata(FeaturesB)))

\* metadata.pkl holds an empty feature list.
BundleEmptyFeatures ==
    Bundle(Pickled(Predictor(0, 40, 150)), Pickled(Predictor(0, 25, 185)),
           TrainedWoE, ScorecardA, 64137, Pickled(Metadata(<<>>)))

\* metadata.pkl holds a dict without the key 'feature_names'.
BundleNoFeatureNames ==
    Bundle(Pickled(Predictor(13, 40, 150)), Pickled(Predictor(13, 25, 185)),
           TrainedWoE, ScorecardA, 64137,
           Pickled([auc_logistic |-> 847, auc_xgb |-> 835]))

\* xgb_model.pkl cannot be unpickled.
BundleCorrupt ==
    Bundle(Pickled(Predictor(13, 40, 150)), CorruptPickle,
           TrainedWoE, ScorecardA, 64137, Pickled(Metadata(TrainedFeatures)))

\* Bundle C: AgeOfVehicle is a feature twice, as AgeOfVehicle_WoE and as
\* AgeOfVehicle_Numeric, the way train_model.py:148-178 lists a bucketed field.
FeaturesC ==
    << <<"Make", "_WoE">>, <<"AgeOfVehicle", "_WoE">>,
       <<"AgeOfVehicle", "_Numeric">>, <<"Claim_Urgency", "">> >>

WoEC ==
    [Make         |-> TrainedWoE.Make,
     AgeOfVehicle |-> ("2 years" :> 33 @@ "5 years" :> -10)]

ScorecardC ==
    << Row(<<"Make", "_WoE">>, -4), Row(<<"AgeOfVehicle", "_WoE">>, -5),
       Row(<<"AgeOfVehicle", "_Numeric">>, 1), Row(<<"Claim_Urgency", "">>, -30) >>

BundleC ==
    Bundle(Pickled(Predictor(4, 323, 300)), Pickled(Predictor(4, 284, 400)),
           WoEC, ScorecardC, 61000, Pickled(Metadata(FeaturesC)))

Bundles == {BundleA, BundleB, BundleC, BundleMismatch, BundleEmptyFeatures,
            BundleNoFeatureNames, BundleCorrupt}

Restrict(f, S) == [x \in S |-> f[x]]

\* What may be on disk at start: a whole bundle, a bundle with one file
\* missing, or no file at all.
DiskImages ==
    Bundles
    \cup {Restrict(BundleA, required_files \ {f}) : f \in required_files}
    \cup {Restrict(BundleA, {})}

NoArtifacts == [loaded |-> FALSE]

\* FraudDetectionEngine.load_models, models.py:24-46, on the files of `image`
\* (all five present): the engine's attributes, or the exception re-raised at
\* line 46.
load_models(image) ==
    IF \E f \in required_files : image[f].corrupt
    THEN Raised("UnpicklingError")
    ELSE LET metadata == image["metadata.pkl"].obj
         IN  IF {"feature_names", "auc_logistic", "auc_xgb"} \subseteq DOMAIN metadata
             THEN Returned(
                    [loaded         |-> TRUE,
                     logistic_model |-> image["logistic_model.pkl"].obj,
                     xgb_model      |-> image["xgb_model.pkl"].obj,
                     woe_mappings   |-> image["woe_mappings.pkl"].obj,
                     scorecard_dict |-> image["scorecard.pkl"].obj,
                     feature_names  |-> metadata.feature_names])
             ELSE Raised("KeyError")

-----------------------------------------------------------------------------
(* FraudDetectionEngine.prepare_features, models.py:48-99 *)

age_mapping ==
    "below 18" :> 17 @@ "16 to 17" :> 17 @@ "18 to 20" :> 19 @@ "21 to 25" :> 23
    @@ "26 to 30" :> 28 @@ "31 to 35" :> 33 @@ "36 to 40" :> 38
    @@ "41 to 50" :> 45 @@ "51 to 65" :> 58 @@ "over 65" :> 70

price_mapping ==
    "less than 20000" :> 15000 @@ "20000 to 29000" :> 24500
    @@ "30000 to 39000" :> 34500 @@ "40000 to 59000" :> 49500
    @@ "60000 to 69000" :> 64500 @@ "more than 69000" :> 80000

vehicle_age_mapping ==
    "new" :> 0 @@ "2 years" :> 2 @@ "3 years" :> 3 @@ "4 years" :> 4
    @@ "5 years" :> 5 @@ "6 years" :> 6 @@ "7 years" :> 7 @@ "more than 7" :> 10

days_mapping ==
    "none" :> 0 @@ "1 to 7" :> 4 @@ "8 to 15" :> 11 @@ "15 to 30" :> 22
    @@ "more than 30" :> 45

\* A cell of the one-row frame: a number in hundredths, or NaN.
Num(n) == [nan |-> FALSE, v |-> n]

NaN == [nan |-> TRUE, v |-> 0]

\* df.get(field, pd.Series()).map(mapping).fillna(default), assigned as a
\* column of the one-row frame: a missing field gives an empty Series, which
\* aligns to NaN in row 0; a value outside the mapping (None too) maps to NaN
\* and fillna puts the default.
NumericColumn(claim_data, field, mapping, default) ==
    IF field \notin DOMAIN claim_data THEN NaN
    ELSE IF claim_data[field] \in DOMAIN mapping
         THEN Num(100 * mapping[claim_data[field]])
         ELSE Num(100 * default)

\* models.py:80-84: df.get(field, '') is the str '' when the field is
\* missing, and '' has neither .astype (after ==), .isin nor .str.
FlagFields == {"Days_Policy_Claim", "VehiclePrice", "AgeOfPolicyHolder",
               "PolicyType", "Make"}

FlagsRaise(claim_data) == \E f \in FlagFields : f \notin DOMAIN claim_data

\* Series.str.contains(pat, na=False) on the one cell: None gives False.
SeriesStrContains(value, pat) ==
    IF value = PyNone THEN FALSE ELSE StrContains(pat, value)

Flag(b) == Num(IF b THEN 100 ELSE 0)

\* Faulty variant of WoEValue: `.map(woe_dict)` without `.fillna(0)`.
WoEValue_nofill(woe_dict, value) ==
    IF value \in DOMAIN woe_dict THEN Num(woe_dict[value]) ELSE NaN

\* models.py:89 df[var].map(woe_dict).fillna(0) on the one cell
WoEValue(woe_dict, value) == Num(Get(woe_dict, value, 0))

\* Columns of df after models.py:52-89 that are not raw claim fields.
DerivedColumns(claim_data, woe_mappings) ==
    LET numeric ==
            <<"AgeOfPolicyHolder", "_Numeric">> :>
                NumericColumn(claim_data, "AgeOfPolicyHolder", age_mapping, 35)
         @@ <<"VehiclePrice", "_Numeric">> :>
                NumericColumn(claim_data, "VehiclePrice", price_mapping, 35000)
         @@ <<"AgeOfVehicle", "_Numeric">> :>
                NumericColumn(claim_data, "AgeOfVehicle", vehicle_age_mapping, 5)
         @@ <<"Days_Policy_Claim", "_Numeric">> :>
                NumericColumn(claim_data, "Days_Policy_Claim", days_mapping, 30)
        business ==
            <<"Claim_Urgency", "">> :>
                Flag(claim_data["Days_Policy_Claim"] = "1 to 7")
         @@ <<"Luxury_Vehicle", "">> :>
                Flag(claim_data["VehiclePrice"] \in {"60000 to 69000", "more than 69000"})
         @@ <<"Young_Driver", "">> :>
                Flag(claim_data["AgeOfPolicyHolder"] \in {"18 to 20", "21 to 25"})
         @@ <<"Complex_Policy", "">> :>
                Flag(SeriesStrContains(claim_data["PolicyType"], "All Perils"))
         @@ <<"Premium_Make", "">> :>
                Flag(claim_data["Make"] \in {"BMW", "Mercedes", "Audi"})
        woe ==
            [c \in {<<var, "_WoE">> : var \in DOMAIN woe_mappings \cap DOMAIN claim_data} |->
                WoEValue(woe_mappings[c[1]], claim_data[c[1]])]
    IN  woe @@ business @@ numeric

\* models.py:92-97.  X starts with no row: `X[feature] = 0` on it makes an
\* empty column, and the first Series assigned gives X its row, the columns
\* made before it being filled with NaN.  Once X has the row, 0 is 0.
AssembleCell(df, feature_names, i) ==
    IF feature_names[i] \in DOMAIN df THEN df[feature_names[i]]
    ELSE IF \E j \in 1..(i - 1) : feature_names[j] \in DOMAIN df THEN Num(0)
    ELSE NaN

\* Faulty variant of Assemble: a listed name the derivation did not produce
\* is left out of X.
Assemble_omit(df, feature_names) ==
    LET InDf(c) == c \in DOMAIN df
        kept    == SelectSeq(feature_names, InDf)
    IN  [columns |-> kept,
         rows    |-> IF Len(kept) > 0 THEN 1 ELSE 0,
         cell    |-> [c \in {kept[i] : i \in 1..Len(kept)} |-> df[c]]]

Assemble(df, feature_names) ==
    [columns |-> feature_names,
     rows    |-> IF \E i \in 1..Len(feature_names) : feature_names[i] \in DOMAIN df
                 THEN 1 ELSE 0,
     cell    |-> [c \in {feature_names[i] : i \in 1..Len(feature_names)} |->
                    AssembleCell(df, feature_names,
                        CHOOSE i \in 1..Len(feature_names) : feature_names[i] = c)]]

prepare_features(claim_data, art) ==
    IF FlagsRaise(claim_data) THEN Raised("AttributeError")
    ELSE Returned(Assemble(DerivedColumns(claim_data, art.woe_mappings),
                           art.feature_names))

-----------------------------------------------------------------------------
(* The two predictors, models.py:164 and 167 *)

Columns(X) == {X.columns[i] : i \in 1..Len(X.columns)}

HasNaN(X) == \E c \in Columns(X) : X.cell[c].nan

\* predict_proba(X)[:, 1][0].  Both libraries refuse a frame with no row or
\* with another number of columns than the model was fitted on; the linear
\* model also refuses NaN, the tree ensemble takes NaN as a missing value.
PredictProba(model, X, accepts_nan) ==
    IF X.rows = 0 \/ Len(X.columns) # model.n_features_in
       \/ (~accepts_nan /\ HasNaN(X))
    THEN Raised("ValueError")
    ELSE Returned(
           Min(1000, model.base + model.step *
                  Cardinality({c \in Columns(X) \cap BusinessFlags :
                                  ~X.cell[c].nan /\ X.cell[c].v = 100})))

\* Faulty variant of Blend: both weights 0.7.
Blend_weights(p_logistic, p_xgb) == 7 * p_logistic + 7 * p_xgb

\* models.py:170, thousandths in, ten-thousandths out
Blend(p_logistic, p_xgb) == 7 * p_logistic + 3 * p_xgb

-----------------------------------------------------------------------------
(* FraudDetectionEngine.calculate_scorecard_points, models.py:101-124 *)

\* Faulty variant of Significant: abs forgotten.
Significant_signed(contribution) == contribution > 50

\* models.py:121 abs(contribution) > 0.5, contribution in hundredths
Significant(contribution) == Abs(contribution) > 50

\* variable.replace('_WoE', '').replace('_Numeric', '')
DisplayName(variable) == variable[1]

\* Faulty variant of BreakdownInit: the breakdown starts empty.
BreakdownInit_empty(base_points) == <<>>

\* models.py:108 points_breakdown = {"Base Score": int(base_points)}
BreakdownInit(base_points) == <<<<"Base Score", PyInt(base_points, 100)>>>>

\* State of the loop of models.py:110-122 after the first i rows.
RECURSIVE ScorecardLoop(_, _, _, _)
ScorecardLoop(X, scorecard, base_points, i) ==
    IF i = 0
    THEN [total |-> Num(base_points),
          points_breakdown |-> BreakdownInit(base_points)]
    ELSE LET before   == ScorecardLoop(X, scorecard, base_points, i - 1)
             variable == scorecard[i].Variable
             points   == scorecard[i].Points
         IN  IF variable \notin Columns(X) THEN before
             ELSE LET value == X.cell[variable]
                      contribution ==
                          IF value.nan THEN NaN ELSE Num(value.v * points)
                  IN  [total |->
                          IF before.total.nan \/ contribution.nan THEN NaN
                          ELSE Num(before.total.v + contribution.v),
                       points_breakdown |->
                          IF ~contribution.nan /\ Significant(contribution.v)
                          THEN DictSet(before.points_breakdown,
                                       DisplayName(variable),
                                       PyInt(contribution.v, 100))
                          ELSE before.points_breakdown]

\* int(total_points) raises ValueError on NaN.
calculate_scorecard_points(X, scorecard_dict) ==
    LET end == ScorecardLoop(X, scorecard_dict.scorecard,
                             scorecard_dict.base_points,
                             Len(scorecard_dict.scorecard))
    IN  IF end.total.nan THEN Raised("ValueError")
        ELSE Returned([risk_score |-> PyInt(end.total.v, 100),
                       scorecard_breakdown |-> end.points_breakdown])

-----------------------------------------------------------------------------
(* FraudDetectionEngine.identify_risk_factors, models.py:126-153 *)

\* models.py:134 `'All Perils' in claim_data.get('PolicyType', '')`
ExplainerRaises(claim_data) == Get(claim_data, "PolicyType", "") = PyNone

ExplainerRules(claim_data) ==
    << Get(claim_data, "Days_Policy_Claim", PyNone) = "1 to 7",
       StrContains("All Perils", Get(claim_data, "PolicyType", "")),
       Get(claim_data, "Make", PyNone) \in {"BMW", "Mercedes", "Audi"},
       Get(claim_data, "AgeOfPolicyHolder", PyNone) \in {"18 to 20", "21 to 25"},
       Get(claim_data, "VehiclePrice", PyNone) \in {"60000 to 69000", "more than 69000"},
       Get(claim_data, "AccidentArea", PyNone) = "Rural" >>

ExplainerText ==
    << "Claim reportado muy rapidamente (1-7 dias)",
       "Poliza de cobertura completa (All Perils)",
       "Vehiculo de marca premium",
       "Conductor joven (mayor riesgo estadistico)",
       "Vehiculo de alto valor",
       "Accidente en area rural" >>

RECURSIVE ExplainerFactors(_, _)
ExplainerFactors(fired, i) ==
    IF i = 0 THEN <<>>
    ELSE ExplainerFactors(fired, i - 1)
         \o (IF fired[i] THEN <<ExplainerText[i]>> ELSE <<>>)

\* Faulty variant of identify_risk_factors: the generic message is appended
\* whenever the probability is above 0.3, whatever rules fired.
identify_risk_factors_generic(claim_data, fraud_prob) ==
    IF Get(claim_data, "PolicyType", "") = PyNone THEN Raised("TypeError")
    ELSE LET fired == ExplainerRules(claim_data)
             risk_factors ==
                 [k \in 1..Cardinality({j \in 1..6 : fired[j]}) |->
                    ExplainerText[CHOOSE j \in 1..6 :
                        fired[j] /\ Cardinality({h \in 1..j : fired[h]}) = k]]
             with_generic ==
                 IF fraud_prob > 3000
                 THEN <<"Combinacion de factores genera riesgo elevado">> \o risk_factors
                 ELSE risk_factors
         IN  Returned(SubSeq(with_generic, 1, Min(4, Len(with_generic))))

\* fraud_prob in ten-thousandths
identify_risk_factors(claim_data, fraud_prob) ==
    IF ExplainerRaises(claim_data) THEN Raised("TypeError")
    ELSE LET risk_factors == ExplainerFactors(ExplainerRules(claim_data), 6)
             with_generic ==
                 IF Len(risk_factors) = 0 /\ fraud_prob > 3000
                 THEN <<"Combinacion de factores genera riesgo elevado">>
                 ELSE risk_factors
         IN  Returned(Take(with_generic, 4))

-----------------------------------------------------------------------------
(* FraudDetectionEngine.calculate_fraud_score, models.py:155-222 *)

\* Faulty variant of TrainedClassify: the thresholds taken as strict.
TrainedClassify_strict(risk_score) ==
    IF risk_score < 580
    THEN [risk_level |-> "HIGH", confidence |-> "High",
          recommendation |-> <<"INVESTIGATE IMMEDIATELY",
                               "Multiple high-risk indicators detected">>]
    ELSE IF risk_score < 620
    THEN [risk_level |-> "MEDIUM", confidence |-> "Medium",
          recommendation |-> <<"DETAILED REVIEW REQUIRED",
                               "Some concerning factors present">>]
    ELSE [risk_level |-> "LOW", confidence |-> "High",
          recommendation |-> <<"STANDARD PROCESSING", "Normal risk profile">>]

\* models.py:176-187
TrainedClassify(risk_score) ==
    IF risk_score <= 580
    THEN [risk_level |-> "HIGH", confidence |-> "High",
          recommendation |-> <<"INVESTIGATE IMMEDIATELY",
                               "Multiple high-risk indicators detected">>]
    ELSE IF risk_score <= 620
    THEN [risk_level |-> "MEDIUM", confidence |-> "Medium",
          recommendation |-> <<"DETAILED REVIEW REQUIRED",
                               "Some concerning factors present">>]
    ELSE [risk_level |-> "LOW", confidence |-> "High",
          recommendation |-> <<"STANDARD PROCESSING", "Normal risk profile">>]

\* models.py:211-222, the result of the except branch
DegradedResult ==
    [fraud_probability       |-> 50,
     risk_score              |-> 650,
     risk_level              |-> "ERROR",
     confidence              |-> "Low",
     key_risk_factors        |-> <<"Error en procesamiento">>,
     scorecard_breakdown     |-> <<<<"Error", 0>>>>,
     business_recommendation |-> <<"MANUAL REVIEW REQUIRED", "System error">>,
     model_version           |-> <<"1.0.0", "error">>]

\* The try block, models.py:160-206: the result, or the first exception.
TrainedTry(claim_data, art) ==
    LET features == prepare_features(claim_data, art)
    IN  IF features.kind = "raise" THEN features ELSE
    LET X          == features.result
        p_logistic == PredictProba(art.logistic_model, X, FALSE)
    IN  IF p_logistic.kind = "raise" THEN p_logistic ELSE
    LET p_xgb == PredictProba(art.xgb_model, X, TRUE)
    IN  IF p_xgb.kind = "raise" THEN p_xgb ELSE
    LET fraud_prob == Blend(p_logistic.result, p_xgb.result)
        card       == calculate_scorecard_points(X, art.scorecard_dict)
    IN  IF card.kind = "raise" THEN card ELSE
    LET tier         == TrainedClassify(card.result.risk_score)
        risk_factors == identify_risk_factors(claim_data, fraud_prob)
    IN  IF risk_factors.kind = "raise" THEN risk_factors ELSE
        Returned(
          [fraud_probability       |-> Round3(fraud_prob),
           risk_score              |-> card.result.risk_score,
           risk_level              |-> tier.risk_level,
           confidence              |-> tier.confidence,
           key_risk_factors        |-> risk_factors.result,
           scorecard_breakdown     |-> card.result.scorecard_breakdown,
           business_recommendation |-> tier.recommendation,
           model_version           |-> <<"1.0.0", "production">>])

\* Faulty variant of TrainedCalculateFraudScore: no except branch, the
\* exception leaves the method.
TrainedCalculateFraudScore_reraise(claim_data, art) == TrainedTry(claim_data, art)

\* except Exception: models.py:208-222
TrainedCalculateFraudScore(claim_data, art) ==
    LET attempt == TrainedTry(claim_data, art)
    IN  IF attempt.kind = "raise" THEN Returned(DegradedResult) ELSE attempt

-----------------------------------------------------------------------------
(* HTTP layer, main.py:87-140 and 333-400 *)

\* Field defaults of ClaimData, main.py:89-99
ClaimDataDefaults ==
    [f \in Fields |->
        CASE f = "Days_Policy_Claim" -> "more than 30"
          [] f = "PolicyType"        -> "Sedan - Collision"
          [] f = "Make"              -> "Honda"
          [] f = "AgeOfPolicyHolder" -> "31 to 35"
          [] f = "VehiclePrice"      -> "20000 to 29000"
          [] f = "AccidentArea"      -> "Urban"
          [] f = "AgeOfVehicle"      -> "5 years"]

\* Every field of ClaimData is declared `str`: a body with a null field is
\* refused before the handler runs.
ClaimDataValid(body) == \A f \in DOMAIN body : body[f] # PyNone

\* claim_data.dict(): the body with the defaults of the fields it lacks.
ClaimDataDict(body) == [f \in Fields |-> Get(body, f, ClaimDataDefaults[f])]

\* fraud_engine.calculate_fraud_score(claim_dict), whichever engine is active
EngineCalculate(engine, art, claim_data) ==
    IF engine = "Trained" THEN TrainedCalculateFraudScore(claim_data, art)
    ELSE FallbackCalculateFraudScore(claim_data)

\* The exception the trained engine caught inside its try block, if any.
EngineCaught(engine, art, claim_data) ==
    IF engine = "Trained" /\ TrainedTry(claim_data, art).kind = "raise"
    THEN TrainedTry(claim_data, art).exc
    ELSE "none"

\* Faulty variant of ClaimAfter: the engine writes the defaults of the missing
\* fields into the caller's dict (`claim_data.setdefault(...)`).
ClaimAfter_setdefault(engine, claim_data) == ClaimDataDict(claim_data)

\* The caller's claim dict once calculate_fraud_score is done with it: the
\* fallback engine only rebinds its parameter and reads with .get
\* (main.py:196-244), the trained engine copies the dict into a DataFrame
\* (models.py:50) and reads with .get (models.py:131-147).
ClaimAfter(engine, claim_data) == claim_data

Response(status, body) == [status |-> status, body |-> body]

\* predict_fraud, main.py:338-363
predict_fraud(engine, art, body) ==
    IF ~ClaimDataValid(body) THEN Response(422, <<>>)
    ELSE LET outcome == EngineCalculate(engine, art, ClaimDataDict(body))
         IN  IF outcome.kind = "raise" THEN Response(400, <<>>)
             ELSE Response(200, outcome.result)

\* The loop of main.py:381-387 over claims[1..i]: the outcomes of the calls.
BatchOutcomes(engine, art, claims) ==
    [i \in 1..Len(claims) |-> EngineCalculate(engine, art, ClaimDataDict(claims[i]))]

\* Faulty variant of CountHigh: `high_risk_count = 1` instead of `+= 1`.
CountHigh_assign(outcomes, i) ==
    IF \E j \in 1..i : outcomes[j].result.risk_level = "HIGH" THEN 1 ELSE 0

\* high_risk_count after the loop, main.py:379 and 386-387
RECURSIVE CountHigh(_, _)
CountHigh(outcomes, i) ==
    IF i = 0 THEN 0
    ELSE CountHigh(outcomes, i - 1)
         + (IF outcomes[i].result.risk_level = "HIGH" THEN 1 ELSE 0)

\* predict_fraud_batch, main.py:370-400
predict_fraud_batch(engine, art, claims) ==
    IF \E i \in 1..Len(claims) : ~ClaimDataValid(claims[i]) THEN Response(422, <<>>)
    ELSE LET outcomes == BatchOutcomes(engine, art, claims)
         IN  IF \E i \in 1..Len(claims) : outcomes[i].kind = "raise"
             THEN Response(400, <<>>)
             ELSE LET results == [i \in 1..Len(claims) |-> outcomes[i].result]
                  IN  Response(200,
                        [results         |-> results,
                         total_processed |-> Len(results),
                         high_risk_count |-> CountHigh(outcomes, Len(claims))])

-----------------------------------------------------------------------------
(* Requests drawn for the batch endpoint *)

Scenario1 ==
    MkClaim("1 to 7", "Sport - All Perils", "BMW", "21 to 25", "more than 69000",
            "Urban", Absent)

Scenario2 ==
    MkClaim("more than 30", "Sedan - Collision", "Honda", "31 to 35",
            "20000 to 29000", "Urban", Absent)

BatchClaims ==
    {Scenario1, Scenario2,
     MkClaim("1 to 7", "Sedan - Collision", "BMW", "21 to 25", "20000 to 29000",
             "Rural", "2 years"),
     MkClaim(Absent, Absent, "Tesla", "31 to 35", "more than 69000", "Rural", Absent),
     MkClaim("1 to 7", PyNone, "BMW", "21 to 25", "more than 69000", "Urban",
             "2 years")}

RECURSIVE SeqsUpTo(_, _)
SeqsUpTo(S, n) ==
    IF n = 0 THEN {<<>>}
    ELSE SeqsUpTo(S, n - 1)
         \cup {Append(q, x) : q \in {r \in SeqsUpTo(S, n - 1) : Len(r) = n - 1}, x \in S}

-----------------------------------------------------------------------------
(* State machine *)

NoCall == [op |-> "none", input |-> <<>>, after |-> <<>>, outcome |-> <<>>,
           caught |-> <<>>, response |-> <<>>]

NoMemo == [set |-> FALSE, claim_data |-> <<>>, outcome |-> <<>>]

Init ==
    /\ phase = "boot"
    /\ ENGINE_AVAILABLE \in BOOLEAN
    /\ disk \in DiskImages
    /\ fraud_engine = "None"
    /\ artifacts = NoArtifacts
    /\ load_calls = 0
    /\ call = NoCall
    /\ memo = NoMemo

\* Faulty variant of Startup: no try/except around the construction of the
\* trained engine, so a failing load leaves fraud_engine unset.
Startup_uncaught ==
    /\ phase = "boot"
    /\ phase' = "serving"
    /\ LET missing_files == required_files \ DOMAIN disk
       IN  IF ENGINE_AVAILABLE
           THEN IF missing_files # {}
                THEN /\ fraud_engine' = "Fallback"
                     /\ UNCHANGED <<artifacts, load_calls>>
                ELSE /\ load_calls' = load_calls + 1
                     /\ IF load_models(disk).kind = "raise"
                        THEN UNCHANGED <<fraud_engine, artifacts>>
                        ELSE /\ fraud_engine' = "Trained"
                             /\ artifacts' = load_models(disk).result
           ELSE /\ fraud_engine' = "Fallback"
                /\ UNCHANGED <<artifacts, load_calls>>
    /\ UNCHANGED <<ENGINE_AVAILABLE, disk, call, memo>>

\* Module-level initialisation, main.py:302-327
Startup ==
    /\ phase = "boot"
    /\ phase' = "serving"
    /\ LET missing_files == required_files \ DOMAIN disk
       IN  IF ENGINE_AVAILABLE
           THEN IF missing_files # {}
                THEN /\ fraud_engine' = "Fallback"
                     /\ UNCHANGED <<artifacts, load_calls>>
                ELSE /\ load_calls' = load_calls + 1
                     /\ IF load_models(disk).kind = "raise"
                        THEN /\ fraud_engine' = "Fallback"
                             /\ UNCHANGED artifacts
                        ELSE /\ fraud_engine' = "Trained"
                             /\ artifacts' = load_models(disk).result
           ELSE /\ fraud_engine' = "Fallback"
                /\ UNCHANGED <<artifacts, load_calls>>
    /\ UNCHANGED <<ENGINE_AVAILABLE, disk, call, memo>>

\* Faulty variant of CalculateFraudScoreOf: the trained engine keeps the running
\* total in its scorecard (`self.scorecard_dict['base_points'] += ...`).
CalculateFraudScoreOf_mutating(S) ==
    /\ phase = "serving"
    /\ call = NoCall
    /\ \E claim_data \in S :
          call' = [op       |-> "calculate_fraud_score",
                   input    |-> <<claim_data>>,
                   after    |-> <<claim_data>>,
                   outcome  |-> <<EngineCalculate(fraud_engine, artifacts, claim_data)>>,
                   caught   |-> <<EngineCaught(fraud_engine, artifacts, claim_data)>>,
                   response |-> <<>>]
    /\ artifacts' = IF fraud_engine = "Trained"
                    THEN [artifacts EXCEPT !.scorecard_dict.base_points = @ - 1000]
                    ELSE artifacts
    /\ UNCHANGED <<phase, ENGINE_AVAILABLE, disk, fraud_engine, load_calls, memo>>

\* A caller of the core hands a claim record of S to the active engine.
CalculateFraudScoreOf(S) ==
    /\ phase = "serving"
    /\ call = NoCall
    /\ \E claim_data \in S :
          call' = [op       |-> "calculate_fraud_score",
                   input    |-> <<claim_data>>,
                   after    |-> <<ClaimAfter(fraud_engine, claim_data)>>,
                   outcome  |-> <<EngineCalculate(fraud_engine, artifacts, claim_data)>>,
                   caught   |-> <<EngineCaught(fraud_engine, artifacts, claim_data)>>,
                   response |-> <<>>]
    /\ UNCHANGED <<phase, ENGINE_AVAILABLE, disk, fraud_engine, artifacts, load_calls,
                   memo>>

CalculateFraudScore == CalculateFraudScoreOf(Claims)

\* POST /predict
PredictFraud ==
    /\ phase = "serving"
    /\ call = NoCall
    /\ \E body \in Claims :
          call' = [op       |-> "predict_fraud",
                   input    |-> <<body>>,
                   after    |-> IF ClaimDataValid(body)
                                THEN <<ClaimAfter(fraud_engine, ClaimDataDict(body))>>
                                ELSE <<>>,
                   outcome  |-> IF ClaimDataValid(body)
                                THEN <<EngineCalculate(fraud_engine, artifacts,
                                                       ClaimDataDict(body))>>
                                ELSE <<>>,
                   caught   |-> IF ClaimDataValid(body)
                                THEN <<EngineCaught(fraud_engine, artifacts,
                                                    ClaimDataDict(body))>>
                                ELSE <<>>,
                   response |-> predict_fraud(fraud_engine, artifacts, body)]
    /\ UNCHANGED <<phase, ENGINE_AVAILABLE, disk, fraud_engine, artifacts, load_calls,
                   memo>>

\* POST /predict/batch
PredictFraudBatch ==
    /\ phase = "serving"
    /\ call = NoCall
    /\ \E claims \in SeqsUpTo(BatchClaims, MaxBatch) :
          LET valid == \A i \in 1..Len(claims) : ClaimDataValid(claims[i])
          IN  call' = [op       |-> "predict_fraud_batch",
                       input    |-> claims,
                       after    |-> IF valid
                                    THEN [i \in 1..Len(claims) |->
                                            ClaimAfter(fraud_engine,
                                                       ClaimDataDict(claims[i]))]
                                    ELSE <<>>,
                       outcome  |-> IF valid
                                    THEN BatchOutcomes(fraud_engine, artifacts, claims)
                                    ELSE <<>>,
                       caught   |-> IF valid
                                    THEN [i \in 1..Len(claims) |->
                                            EngineCaught(fraud_engine, artifacts,
                                                         ClaimDataDict(claims[i]))]
                                    ELSE <<>>,
                       response |-> predict_fraud_batch(fraud_engine, artifacts, claims)]
    /\ UNCHANGED <<phase, ENGINE_AVAILABLE, disk, fraud_engine, artifacts, load_calls,
                   memo>>

\* isinstance(fraud_engine, FraudDetectionEngine), main.py:622 and 671: the
\* name FraudDetectionEngine is bound only if the import of main.py:33
\* succeeded; looking it up otherwise raises NameError.
IsInstanceTrained(available, engine) ==
    IF available THEN Returned(engine = "Trained") ELSE Raised("NameError")

\* startup_event, main.py:663-676: what it logs about the engine.
startup_event(available, engine) ==
    LET test == IsInstanceTrained(available, engine)
    IN  IF test.kind = "raise" THEN test
        ELSE Returned(IF test.result THEN "ML Engine ready with trained models"
                      ELSE "Running in fallback mode (business rules)")

\* health_check, main.py:617-637; an exception in a handler is a 500.
health_check(available, engine) ==
    LET test == IsInstanceTrained(available, engine)
    IN  IF test.kind = "raise" THEN Response(500, <<>>)
        ELSE Response(200,
               [status       |-> "healthy",
                model_status |-> IF test.result THEN "ML Engine Active"
                                 ELSE "Fallback Mode",
                ml_engine    |-> IF available THEN "operational" ELSE "fallback"])

\* The server runs the startup handler.  When the handler raises, the
\* application startup fails and the process exits.
StartupEvent ==
    /\ phase = "serving"
    /\ call = NoCall
    /\ call' = [op       |-> "startup_event",
                input    |-> <<>>,
                after    |-> <<>>,
                outcome  |-> <<>>,
                caught   |-> <<>>,
                response |-> startup_event(ENGINE_AVAILABLE, fraud_engine)]
    /\ phase' = IF startup_event(ENGINE_AVAILABLE, fraud_engine).kind = "raise"
                THEN "exited" ELSE phase
    /\ UNCHANGED <<ENGINE_AVAILABLE, disk, fraud_engine, artifacts, load_calls, memo>>

\* GET /health
HealthCheck ==
    /\ phase = "serving"
    /\ call = NoCall
    /\ call' = [op       |-> "health_check",
                input    |-> <<>>,
                after    |-> <<>>,
                outcome  |-> <<>>,
                caught   |-> <<>>,
                response |-> health_check(ENGINE_AVAILABLE, fraud_engine)]
    /\ UNCHANGED <<phase, ENGINE_AVAILABLE, disk, fraud_engine, artifacts, load_calls,
                   memo>>

\* Faulty variant of ReturnToCaller: the handler builds a new trained engine
\* for every request, which loads the artifacts again.
ReturnToCaller_reload ==
    /\ phase = "serving"
    /\ call # NoCall
    /\ call' = NoCall
    /\ load_calls' = load_calls + 1
    /\ UNCHANGED <<phase, ENGINE_AVAILABLE, disk, fraud_engine, artifacts, memo>>

\* The outcome leaves the process (return value or HTTP response); the
\* process keeps nothing of the request and is ready for the next one.
ReturnToCaller ==
    /\ phase = "serving"
    /\ call # NoCall
    /\ call' = NoCall
    /\ UNCHANGED <<phase, ENGINE_AVAILABLE, disk, fraud_engine, artifacts, load_calls,
                   memo>>

Next ==
    \/ Startup
    \/ StartupEvent
    \/ HealthCheck
    \/ CalculateFraudScore
    \/ PredictFraud
    \/ PredictFraudBatch
    \/ ReturnToCaller

Spec == Init /\ [][Next]_vars

-----------------------------------------------------------------------------
(* Vocabulary of the properties *)

\* Positions of the claims the engine was called on in the last operation.
Scored == 1..Len(call.outcome)

\* The claim record the engine received at position i: the caller's dict for
\* a direct call, the validated ClaimData dict for the HTTP endpoints.
ClaimAt(i) ==
    IF call.op = "calculate_fraud_score" THEN call.input[i]
    ELSE ClaimDataDict(call.input[i])

ReturnedAt(i) == call.outcome[i].kind = "return"

ResultAt(i) == call.outcome[i].result

\* The result at i came out of the except branch of the trained engine.
DegradedAt(i) == call.caught[i] # "none"

OnFallback == fraud_engine = "Fallback"

OnTrained == fraud_engine = "Trained"

\* The six fallback conditions, stated on the claim record itself.
Has(claim_data, f, values) == f \in DOMAIN claim_data /\ claim_data[f] \in values

IsUrgent(c) == Has(c, "Days_Policy_Claim", {"1 to 7"})

IsAllPerils(c) == Has(c, "PolicyType", {"Sport - All Perils"})

IsPremiumMake(c) == Has(c, "Make", {"BMW", "Mercedes", "Audi"})

IsYoung(c) == Has(c, "AgeOfPolicyHolder", {"18 to 20", "21 to 25"})

IsLuxuryPrice(c) == Has(c, "VehiclePrice", {"60000 to 69000", "more than 69000"})

IsRural(c) == Has(c, "AccidentArea", {"Rural"})

-----------------------------------------------------------------------------
(* C1 *)

\* C1 as stated: every result has a risk_level among HIGH, MEDIUM, LOW, ERROR,
\* HIGH iff risk_score <= 580, MEDIUM iff 581 <= risk_score <= 620, LOW iff
\* risk_score > 620, and ERROR only on the degraded path -- the degraded
\* result included.
C1_AsStated ==
    \A i \in Scored : ReturnedAt(i) =>
        LET r == ResultAt(i)
        IN  /\ r.risk_level \in {"HIGH", "MEDIUM", "LOW", "ERROR"}
            /\ (r.risk_level = "HIGH") <=> (r.risk_score <= 580)
            /\ (r.risk_level = "MEDIUM") <=> (581 <= r.risk_score /\ r.risk_score <= 620)
            /\ (r.risk_level = "LOW") <=> (r.risk_score > 620)
            /\ (r.risk_level = "ERROR") => DegradedAt(i)

\* C1 amended: every result has a risk_level among HIGH, MEDIUM, LOW, ERROR;
\* HIGH iff risk_score <= 580 and MEDIUM iff 581 <= risk_score <= 620 on every
\* result; LOW iff risk_score > 620 on every result that is not the degraded
\* one; ERROR appears exactly on the degraded path, with risk_score 650.
C1_RiskLevelMatchesScore ==
    \A i \in Scored : ReturnedAt(i) =>
        LET r == ResultAt(i)
        IN  /\ r.risk_level \in {"HIGH", "MEDIUM", "LOW", "ERROR"}
            /\ (r.risk_level = "HIGH") <=> (r.risk_score <= 580)
            /\ (r.risk_level = "MEDIUM") <=> (581 <= r.risk_score /\ r.risk_score <= 620)
            /\ (r.risk_level = "LOW") <=> (r.risk_score > 620 /\ ~DegradedAt(i))
            /\ (r.risk_level = "ERROR") <=> DegradedAt(i)
            /\ DegradedAt(i) => r.risk_score = 650

\* A fallback result in the MEDIUM band, next to the HIGH threshold.
C1_Witness ==
    /\ OnFallback
    /\ \E i \in Scored : /\ ReturnedAt(i)
                         /\ ResultAt(i).risk_level = "MEDIUM"
                         /\ ResultAt(i).risk_score <= 590

-----------------------------------------------------------------------------
(* C2 *)

\* C2: every result has fraud_probability in [0, 1] and an integer risk_score;
\* a trained-path result that is not degraded has fraud_probability
\* round(0.7 * p_linear + 0.3 * p_ensemble, 3) with both model outputs in
\* [0, 1]; every fallback result has fraud_probability in [0.005, 0.95].
C2_ProbabilityRange ==
    \A i \in Scored : ReturnedAt(i) =>
        LET r == ResultAt(i)
        IN  /\ r.fraud_probability \in 0..1000
            /\ r.risk_score \in Int
            /\ OnFallback => r.fraud_probability \in 5..950
            /\ (OnTrained /\ ~DegradedAt(i)) =>
                 LET X  == prepare_features(ClaimAt(i), artifacts).result
                     pl == PredictProba(artifacts.logistic_model, X, FALSE).result
                     px == PredictProba(artifacts.xgb_model, X, TRUE).result
                 IN  /\ pl \in 0..1000
                     /\ px \in 0..1000
                     /\ r.fraud_probability = Round3(7 * pl + 3 * px)

\* A trained result whose two model outputs differ and blend above 0.5.
C2_Witness ==
    /\ OnTrained
    /\ \E i \in Scored :
          /\ ReturnedAt(i) /\ ~DegradedAt(i)
          /\ ResultAt(i).fraud_probability > 500
          /\ LET X == prepare_features(ClaimAt(i), artifacts).result
             IN  PredictProba(artifacts.logistic_model, X, FALSE).result
                    # PredictProba(artifacts.xgb_model, X, TRUE).result

-----------------------------------------------------------------------------
(* C3 *)

\* C3 as stated: Scenario 1 scored on the Fallback Engine returns
\* fraud_probability 0.545.
C3_AsStated ==
    \A i \in Scored :
        (OnFallback /\ ClaimAt(i) = Scenario1 /\ ReturnedAt(i))
            => ResultAt(i).fraud_probability = 545

\* C3 amended: Scenario 1 scored on the Fallback Engine returns
\* fraud_probability min(0.95, 0.035 + 0.18 + 0.09 + 0.12 + 0.07 + 0.08),
\* which is 0.575.
C3_Scenario1Probability ==
    \A i \in Scored :
        (OnFallback /\ ClaimAt(i) = Scenario1)
            => ReturnedAt(i) /\ ResultAt(i).fraud_probability = 575

\* Scenario 1 was handed to the Fallback Engine.
C3_Witness ==
    /\ OnFallback
    /\ call.op = "calculate_fraud_score"
    /\ ClaimAt(1) = Scenario1
    /\ ReturnedAt(1)

-----------------------------------------------------------------------------
(* C4 *)

C4_Delta(c) ==
      (IF IsUrgent(c) THEN -25 ELSE 10)
    + (IF IsAllPerils(c) THEN -15 ELSE 5)
    + (IF IsPremiumMake(c) THEN -20 ELSE 5)
    + (IF IsYoung(c) THEN -15 ELSE 5)
    + (IF IsLuxuryPrice(c) THEN -10 ELSE 0)
    + (IF IsRural(c) THEN -8 ELSE 2)

\* C4: every Fallback Engine result has risk_score 650 plus the six per-rule
\* deltas of the fixed table; Scenario 1 gives 567 and HIGH, Scenario 2 gives
\* 677 and LOW.
C4_FallbackScore ==
    \A i \in Scored : (OnFallback /\ ReturnedAt(i)) =>
        /\ ResultAt(i).risk_score = 650 + C4_Delta(ClaimAt(i))
        /\ ClaimAt(i) = Scenario1 =>
              ResultAt(i).risk_score = 567 /\ ResultAt(i).risk_level = "HIGH"
        /\ ClaimAt(i) = Scenario2 =>
              ResultAt(i).risk_score = 677 /\ ResultAt(i).risk_level = "LOW"

\* A batch on the Fallback Engine that scored Scenario 1 and then Scenario 2.
C4_Witness ==
    /\ OnFallback
    /\ call.op = "predict_fraud_batch"
    /\ Len(call.outcome) = 2
    /\ call.input = <<Scenario1, Scenario2>>
    /\ ReturnedAt(1) /\ ReturnedAt(2)

-----------------------------------------------------------------------------
(* C5 *)

\* C5: when the try block of the trained engine fails (feature derivation or
\* a prediction call), calculate_fraud_score returns the degraded result:
\* fraud_probability 0.05, risk_score 650, risk_level ERROR, confidence Low,
\* one factor, a recommendation starting MANUAL REVIEW REQUIRED and a
\* model_version ending in -error.
C5_DegradedResult ==
    \A i \in Scored : (OnTrained /\ TrainedTry(ClaimAt(i), artifacts).kind = "raise") =>
        /\ ReturnedAt(i)
        /\ LET r == ResultAt(i)
           IN  /\ r.fraud_probability = 50
               /\ r.risk_score = 650
               /\ r.risk_level = "ERROR"
               /\ r.confidence = "Low"
               /\ Len(r.key_risk_factors) = 1
               /\ r.business_recommendation[1] = "MANUAL REVIEW REQUIRED"
               /\ r.model_version[Len(r.model_version)] = "error"

\* Feature derivation failed on a claim that lacks a field (AttributeError)
\* in a bundle whose predictors would have answered.
C5_Witness ==
    /\ OnTrained
    /\ call.op = "calculate_fraud_score"
    /\ call.caught = <<"AttributeError">>
    /\ ReturnedAt(1)

\* A prediction call failed (ValueError) after features were derived.
C5_WitnessPrediction ==
    /\ OnTrained
    /\ call.op = "predict_fraud"
    /\ call.caught = <<"ValueError">>
    /\ prepare_features(ClaimAt(1), artifacts).kind = "return"
    /\ ReturnedAt(1)

-----------------------------------------------------------------------------
(* C6 *)

\* C6 as stated (its core part): no call of calculate_fraud_score raises, for
\* either engine and whatever the claim record holds, and a /predict request
\* that reached the engine is answered with a Score Result (status 200).
C6_AsStated ==
    /\ \A i \in Scored : ReturnedAt(i)
    /\ (call.op = "predict_fraud" /\ Len(call.outcome) = 1) => call.response.status = 200

-----------------------------------------------------------------------------
(* C7 *)

\* load_models fails on these files: one cannot be unpickled, or the metadata
\* lacks a key that load_models reads.
C7_LoadFails(image) ==
    \/ \E f \in required_files : image[f].corrupt
    \/ ~({"feature_names", "auc_logistic", "auc_xgb"}
            \subseteq DOMAIN image["metadata.pkl"].obj)

\* C7: after initialisation fraud_engine is never None; it is the fallback
\* engine when a required file is absent or the construction of the trained
\* engine raised; it is the trained engine only when the import succeeded,
\* all five files exist and load_models completed.
C7_EngineSelection ==
    /\ phase = "boot" => fraud_engine = "None"
    /\ phase = "serving" =>
        /\ fraud_engine \in {"Fallback", "Trained"}
        /\ (required_files \ DOMAIN disk # {}) => fraud_engine = "Fallback"
        /\ (DOMAIN disk = required_files /\ C7_LoadFails(disk))
              => fraud_engine = "Fallback"
        /\ fraud_engine = "Trained" =>
              /\ ENGINE_AVAILABLE
              /\ DOMAIN disk = required_files
              /\ ~C7_LoadFails(disk)
              /\ artifacts.loaded

\* All five files exist, the import succeeded, and the construction raised.
C7_Witness ==
    /\ phase = "serving"
    /\ ENGINE_AVAILABLE
    /\ DOMAIN disk = required_files
    /\ load_calls = 1
    /\ fraud_engine = "Fallback"

-----------------------------------------------------------------------------
(* C8 *)

\* C8 as stated: every result's scorecard_breakdown has "Base Score" as its
\* first entry, the degraded result included.
C8_AsStated ==
    \A i \in Scored : ReturnedAt(i) =>
        LET bd == ResultAt(i).scorecard_breakdown
        IN  Len(bd) >= 1 /\ bd[1][1] = "Base Score"

\* C8 amended: every result that is not the degraded one has "Base Score" as
\* the first entry of scorecard_breakdown, holding 650 on the fallback engine
\* and int(base_points) on the trained path; the degraded result's breakdown
\* is {"Error": 0} and has no "Base Score" key.
C8_BaseScoreFirst ==
    \A i \in Scored : ReturnedAt(i) =>
        LET bd == ResultAt(i).scorecard_breakdown
        IN  IF DegradedAt(i)
            THEN bd = <<<<"Error", 0>>>> /\ ~HasKey(bd, "Base Score")
            ELSE /\ Len(bd) >= 1
                 /\ bd[1][1] = "Base Score"
                 /\ OnFallback => bd[1][2] = 650
                 /\ OnTrained =>
                      bd[1][2] = PyInt(artifacts.scorecard_dict.base_points, 100)

\* A trained result, not degraded, with more entries than the base.
C8_Witness ==
    /\ OnTrained
    /\ \E i \in Scored : /\ ReturnedAt(i) /\ ~DegradedAt(i)
                         /\ Len(ResultAt(i).scorecard_breakdown) > 1

-----------------------------------------------------------------------------
(* C9 *)

\* C9: for every Fallback Engine result, risk_score equals
\* scorecard_breakdown["Base Score"] plus the sum of all its other values.
C9_BreakdownSums ==
    \A i \in Scored : (OnFallback /\ ReturnedAt(i)) =>
        LET bd == ResultAt(i).scorecard_breakdown
            others == {j \in 1..Len(bd) : bd[j][1] # "Base Score"}
            total == SumSeq([j \in 1..Len(bd) |-> bd[j][2]])
        IN  /\ Cardinality(others) = Len(bd) - 1
            /\ ResultAt(i).risk_score = total

\* A fallback result with fired and unfired rules in its breakdown.
C9_Witness ==
    /\ OnFallback
    /\ \E i \in Scored :
          /\ ReturnedAt(i)
          /\ \E j, k \in 2..Len(ResultAt(i).scorecard_breakdown) :
                /\ ResultAt(i).scorecard_breakdown[j][2] < 0
                /\ ResultAt(i).scorecard_breakdown[k][2] > 0

-----------------------------------------------------------------------------
(* C10 *)

\* C10: a batch of N claims that is answered returns exactly N results,
\* result i being the score of claim i, total_processed = N, and
\* high_risk_count the number of results whose risk_level is HIGH.
C10_Batch ==
    (call.op = "predict_fraud_batch" /\ call.response.status = 200) =>
        LET N == Len(call.input)
            body == call.response.body
        IN  /\ Len(body.results) = N
            /\ \A i \in 1..N :
                  body.results[i] =
                      EngineCalculate(fraud_engine, artifacts,
                                      ClaimDataDict(call.input[i])).result
            /\ body.total_processed = N
            /\ body.high_risk_count =
                  Cardinality({i \in 1..N : body.results[i].risk_level = "HIGH"})

\* An answered batch of two different claims, the second one HIGH only.
C10_Witness ==
    /\ call.op = "predict_fraud_batch"
    /\ call.response.status = 200
    /\ Len(call.input) = 2
    /\ call.response.body.high_risk_count = 1
    /\ call.response.body.results[1].risk_level = "LOW"
    /\ call.response.body.results[2].risk_level = "HIGH"

-----------------------------------------------------------------------------
(* Sequences of calls with a caller that keeps an earlier outcome *)

\* The caller keeps one of the outcomes of the operation that ends, with the
\* claim record the engine was given for it.
Remember ==
    /\ phase = "serving"
    /\ call # NoCall
    /\ \E i \in Scored :
          memo' = [set |-> TRUE, claim_data |-> ClaimAt(i), outcome |-> call.outcome[i]]
    /\ call' = NoCall
    /\ UNCHANGED <<phase, ENGINE_AVAILABLE, disk, fraud_engine, artifacts, load_calls>>

NextHistory ==
    \/ Startup
    \/ CalculateFraudScoreOf(BatchClaims)
    \/ PredictFraudBatch
    \/ ReturnToCaller
    \/ Remember

SpecHistory == Init /\ [][NextHistory]_vars

-----------------------------------------------------------------------------
(* C11 *)

\* Two outcomes agree on what a caller can observe of the score.
SameScore(a, b) ==
    /\ a.kind = b.kind
    /\ a.kind = "return" =>
          /\ a.result.fraud_probability = b.result.fraud_probability
          /\ a.result.risk_score = b.result.risk_score
          /\ a.result.risk_level = b.result.risk_level
          /\ a.result.scorecard_breakdown = b.result.scorecard_breakdown

\* C11: a claim record scored again by the same process, later in the same
\* batch or in a later operation after any number of other calls, gets the
\* same fraud_probability, risk_score, risk_level and scorecard_breakdown as
\* the first time.
C11_Idempotent ==
    \A i \in Scored :
        /\ (memo.set /\ memo.claim_data = ClaimAt(i))
              => SameScore(memo.outcome, call.outcome[i])
        /\ \A j \in Scored :
              ClaimAt(j) = ClaimAt(i) => SameScore(call.outcome[j], call.outcome[i])

\* A claim scored normally by the trained engine in an earlier operation is
\* scored again, in second position of a batch.
C11_Witness ==
    /\ OnTrained
    /\ memo.set
    /\ call.op = "predict_fraud_batch"
    /\ Len(call.outcome) = 2
    /\ memo.claim_data = ClaimAt(2)
    /\ memo.claim_data # ClaimAt(1)
    /\ ReturnedAt(2)
    /\ ~DegradedAt(2)

-----------------------------------------------------------------------------
(* C12 *)

\* The claim record c with another value for one of its fields.
With(c, f, value) == [g \in DOMAIN c \cup {f} |-> IF g = f THEN value ELSE c[g]]

\* The claim at i carries a Make the trained WoE table does not list.
UnknownMakeAt(i) ==
    /\ "Make" \in DOMAIN ClaimAt(i)
    /\ "Make" \in DOMAIN artifacts.woe_mappings
    /\ ClaimAt(i)["Make"] \notin DOMAIN artifacts.woe_mappings["Make"]

\* C12: on the trained engine, a claim whose Make is outside the trained
\* enumeration, and that is scored normally once its Make is replaced by a
\* trained one, does not raise and is not answered with the ERROR result: it
\* gets a normal result computed with Make_WoE = 0.
C12_UnknownCategory ==
    \A i \in Scored :
        (/\ OnTrained
         /\ UnknownMakeAt(i)
         /\ TrainedTry(With(ClaimAt(i), "Make", "Honda"), artifacts).kind = "return")
        => /\ ReturnedAt(i)
           /\ ~DegradedAt(i)
           /\ ResultAt(i).risk_level \in {"HIGH", "MEDIUM", "LOW"}
           /\ prepare_features(ClaimAt(i), artifacts).result.cell[<<"Make", "_WoE">>]
                 = Num(0)

\* The trained engine has scored a claim with the unlisted Make "Tesla".
C12_Witness ==
    \E i \in Scored :
        /\ OnTrained
        /\ UnknownMakeAt(i)
        /\ ClaimAt(i)["Make"] = "Tesla"
        /\ ReturnedAt(i)
        /\ ~DegradedAt(i)
        /\ <<"Make", "_WoE">> \in Columns(prepare_features(ClaimAt(i), artifacts).result)

-----------------------------------------------------------------------------
(* C13 *)

\* C13: key_risk_factors has at most 4 entries in every result, of the
\* fallback engine, of the trained engine and of its degraded branch.
C13_AtMostFourFactors ==
    \A i \in Scored :
        ReturnedAt(i) => Len(ResultAt(i).key_risk_factors) <= 4

\* The trained engine has scored normally a claim on which all six rules of
\* the explainer fire, and reports four factors.
C13_Witness ==
    \E i \in Scored :
        /\ OnTrained
        /\ ReturnedAt(i)
        /\ ~DegradedAt(i)
        /\ \A k \in 1..6 : ExplainerRules(ClaimAt(i))[k]
        /\ Len(ResultAt(i).key_risk_factors) = 4

-----------------------------------------------------------------------------
(* C14 *)

\* The claim record lacks a field one of the five business flags reads.
MissingFlagField(c) == FlagFields \ DOMAIN c # {}

\* C14 as stated: a claim handed to the trained engine without one of the
\* fields the business flags read is scored like any other, the flag being 0:
\* whenever the claim completed with the defaults of the fields it lacks is
\* scored normally, the claim itself has its features derived and gets a
\* normal, non-ERROR result.
C14_AsStated ==
    \A i \in Scored :
        (/\ OnTrained
         /\ MissingFlagField(ClaimAt(i))
         /\ TrainedTry(ClaimDataDict(ClaimAt(i)), artifacts).kind = "return")
        => /\ prepare_features(ClaimAt(i), artifacts).kind = "return"
           /\ ReturnedAt(i)
           /\ ~DegradedAt(i)
           /\ ResultAt(i).risk_level \in {"HIGH", "MEDIUM", "LOW"}

-----------------------------------------------------------------------------
(* C15 *)

\* The fields of a result, timestamp and processing_time_ms left out.
ResultFields ==
    {"fraud_probability", "risk_score", "risk_level", "confidence",
     "key_risk_factors", "scorecard_breakdown", "business_recommendation",
     "model_version"}

\* The types of the fields: a float in thousandths, an int, strings, a list
\* of strings, a dict from strings to ints, and two "head - tail" strings.
ResultTypeOK(r) ==
    /\ DOMAIN r = ResultFields
    /\ r.fraud_probability \in Int
    /\ r.risk_score \in Int
    /\ r.risk_level \in STRING
    /\ r.confidence \in STRING
    /\ \A k \in 1..Len(r.key_risk_factors) : r.key_risk_factors[k] \in STRING
    /\ \A k \in 1..Len(r.scorecard_breakdown) :
          /\ Len(r.scorecard_breakdown[k]) = 2
          /\ r.scorecard_breakdown[k][2] \in Int
    /\ Len(r.business_recommendation) = 2
    /\ r.business_recommendation[1] \in STRING
    /\ r.business_recommendation[2] \in STRING
    /\ Len(r.model_version) = 2
    /\ r.model_version[1] = "1.0.0"

\* C15 as stated: every result has the one field set and the one typing, and
\* no field tells the engine: the model_version of a fallback result is one
\* the trained engine returns too.
C15_AsStated ==
    \A i \in Scored :
        ReturnedAt(i) =>
            /\ ResultTypeOK(ResultAt(i))
            /\ OnFallback =>
                  ResultAt(i).model_version
                      \in {<<"1.0.0", "production">>, <<"1.0.0", "error">>}

\* C15: every result of either engine has the one field set and the one
\* typing; model_version tells the engine, "1.0.0-fallback" on the fallback
\* engine and on it only.
C15_SameContract ==
    \A i \in Scored :
        ReturnedAt(i) =>
            /\ ResultTypeOK(ResultAt(i))
            /\ OnFallback <=> ResultAt(i).model_version = <<"1.0.0", "fallback">>
            /\ OnTrained <=>
                  ResultAt(i).model_version
                      \in {<<"1.0.0", "production">>, <<"1.0.0", "error">>}

\* The fallback engine has answered POST /predict.
C15_Witness ==
    /\ OnFallback
    /\ call.op = "predict_fraud"
    /\ call.response.status = 200
    /\ ResultTypeOK(call.response.body)
    /\ call.response.body.model_version = <<"1.0.0", "fallback">>

-----------------------------------------------------------------------------
(* C16 *)

\* C16: the engine is chosen before any scoring call, load_models runs at
\* most once, and once the process serves no step assigns fraud_engine, loads
\* artifacts or changes the loaded ones.
C16_ChosenOnce ==
    /\ [](call # NoCall => (phase # "boot" /\ fraud_engine # "None"))
    /\ [](load_calls <= 1)
    /\ [][phase = "serving" =>
            (/\ fraud_engine' = fraud_engine
             /\ artifacts' = artifacts
             /\ load_calls' = load_calls)]_vars

\* A batch is being scored by the trained engine, loaded once.
C16_Witness ==
    /\ OnTrained
    /\ load_calls = 1
    /\ call.op = "predict_fraud_batch"
    /\ Len(call.outcome) = 2

-----------------------------------------------------------------------------
(* C17 *)

\* The attributes of the active engine as the construction of the engine set
\* them.
AsConstructed == IF OnTrained THEN load_models(disk).result ELSE NoArtifacts

-----------------------------------------------------------------------------
(* C18 *)

\* C18: on every result that is not the degraded one, on either engine,
\* risk_score <= 580 comes with confidence "High" and a recommendation that
\* starts "INVESTIGATE IMMEDIATELY", 581..620 with "Medium" and "DETAILED
\* REVIEW REQUIRED", above 620 with "High" and "STANDARD PROCESSING".
C18_TierDecides ==
    \A i \in Scored :
        (ReturnedAt(i) /\ ~DegradedAt(i)) =>
            LET r == ResultAt(i)
            IN  /\ r.risk_score <= 580 =>
                      /\ r.confidence = "High"
                      /\ r.business_recommendation[1] = "INVESTIGATE IMMEDIATELY"
                /\ (581 <= r.risk_score /\ r.risk_score <= 620) =>
                      /\ r.confidence = "Medium"
                      /\ r.business_recommendation[1] = "DETAILED REVIEW REQUIRED"
                /\ r.risk_score > 620 =>
                      /\ r.confidence = "High"
                      /\ r.business_recommendation[1] = "STANDARD PROCESSING"

\* The trained engine has scored a claim at 620 exactly, the upper end of the
\* middle tier.
C18_Witness ==
    \E i \in Scored :
        /\ OnTrained
        /\ ReturnedAt(i)
        /\ ~DegradedAt(i)
        /\ ResultAt(i).risk_score = 620
        /\ ResultAt(i).confidence = "Medium"
        /\ ResultAt(i).business_recommendation[1] = "DETAILED REVIEW REQUIRED"

-----------------------------------------------------------------------------
(* C19 *)

\* What C19 gives as <field>_Numeric: the midpoint of a mapped value, the
\* default of the table for an unmapped value and for a missing field.
ExpectedNumeric(claim_data, field, mapping, default) ==
    IF field \in DOMAIN claim_data /\ claim_data[field] \in DOMAIN mapping
    THEN Num(100 * mapping[claim_data[field]])
    ELSE Num(100 * default)

\* C19 as stated: for every claim handed to the trained engine, each of the
\* four <field>_Numeric columns is a number, the midpoint of the value when
\* the table maps it and the default of the table (35, 35000, 5, 30) when the
\* value is unmapped or the field is missing from the claim.
C19_AsStated ==
    \A i \in Scored :
        OnTrained =>
            LET c == ClaimAt(i)
            IN  /\ NumericColumn(c, "AgeOfPolicyHolder", age_mapping, 35)
                      = ExpectedNumeric(c, "AgeOfPolicyHolder", age_mapping, 35)
                /\ NumericColumn(c, "VehiclePrice", price_mapping, 35000)
                      = ExpectedNumeric(c, "VehiclePrice", price_mapping, 35000)
                /\ NumericColumn(c, "AgeOfVehicle", vehicle_age_mapping, 5)
                      = ExpectedNumeric(c, "AgeOfVehicle", vehicle_age_mapping, 5)
                /\ NumericColumn(c, "Days_Policy_Claim", days_mapping, 30)
                      = ExpectedNumeric(c, "Days_Policy_Claim", days_mapping, 30)

-----------------------------------------------------------------------------
(* C20 *)

\* The listed names that the derivation did not produce for this claim.
NotProduced(claim_data, art) ==
    {c \in {art.feature_names[k] : k \in 1..Len(art.feature_names)} :
        c \notin DOMAIN DerivedColumns(claim_data, art.woe_mappings)}

\* C20: the feature vector that prepare_features returns for a claim has the
\* names of the metadata feature list, in that order and with that length, a
\* listed name that the derivation did not produce being a column of value 0;
\* no other column appears.
C20_FeatureVector ==
    \A i \in Scored :
        (OnTrained /\ prepare_features(ClaimAt(i), artifacts).kind = "return") =>
            LET X == prepare_features(ClaimAt(i), artifacts).result
            IN  /\ X.columns = artifacts.feature_names
                /\ DOMAIN X.cell = Columns(X)
                /\ \A c \in NotProduced(ClaimAt(i), artifacts) :
                      c \in DOMAIN X.cell /\ X.cell[c] = Num(0)

\* The trained engine has scored a claim without AccidentArea under a feature
\* list that names AccidentArea_WoE: the column is there, with 0.
C20_Witness ==
    \E i \in Scored :
        /\ OnTrained
        /\ prepare_features(ClaimAt(i), artifacts).kind = "return"
        /\ <<"AccidentArea", "_WoE">> \in NotProduced(ClaimAt(i), artifacts)
        /\ prepare_features(ClaimAt(i), artifacts).result.cell[<<"AccidentArea", "_WoE">>]
              = Num(0)
        /\ ReturnedAt(i)

-----------------------------------------------------------------------------
(* C21 *)

\* metadata.pkl is on disk and readable, and its feature list is absent or
\* empty.
MalformedFeatureList ==
    /\ required_files \subseteq DOMAIN disk
    /\ \A f \in required_files : ~disk[f].corrupt
    /\ \/ "feature_names" \notin DOMAIN disk["metadata.pkl"].obj
       \/ disk["metadata.pkl"].obj.feature_names = <<>>

\* C21 as stated: with a metadata feature list that is absent or empty the
\* trained engine is not put in service, the process serves with the
\* fallback engine, and no scoring request is answered with the degraded
\* result.
C21_AsStated ==
    (phase = "serving" /\ MalformedFeatureList) =>
        /\ OnFallback
        /\ \A i \in Scored : ~DegradedAt(i)

-----------------------------------------------------------------------------
(* C22 *)

\* The feature vector of the claim at i and the loaded scorecard.
XAt(i) == prepare_features(ClaimAt(i), artifacts).result

Card == artifacts.scorecard_dict.scorecard

\* Rows of the scorecard whose variable is a column of the feature vector.
RowsIn(X) == {k \in 1..Len(Card) : Card[k].Variable \in Columns(X)}

\* feature value times points, in hundredths of a point
Contribution(X, k) == X.cell[Card[k].Variable].v * Card[k].Points

RECURSIVE SumOver(_, _)
SumOver(f, S) ==
    IF S = {} THEN 0
    ELSE LET k == CHOOSE x \in S : TRUE IN f[k] + SumOver(f, S \ {k})

\* base_points plus the contributions of the rows of RowsIn, in hundredths
RealTotal(X) ==
    artifacts.scorecard_dict.base_points
    + SumOver([k \in RowsIn(X) |-> Contribution(X, k)], RowsIn(X))

Surfaced(X) == {k \in RowsIn(X) : Abs(Contribution(X, k)) > 50}

NormalAt(i) == OnTrained /\ ReturnedAt(i) /\ ~DegradedAt(i)

\* C22: on a normal trained result, risk_score is the integer part of
\* base_points plus the contributions of exactly the scorecard rows whose
\* variable is a column of the feature vector; a row whose contribution is
\* above 0.5 in absolute value has its variable name, suffix stripped, as a
\* key of the breakdown, and every key but "Base Score" is the stripped name
\* of such a row and carries the integer part of the contribution of one.
C22_ScorecardTotal ==
    \A i \in Scored :
        NormalAt(i) =>
            LET X  == XAt(i)
                bd == ResultAt(i).scorecard_breakdown
            IN  /\ ResultAt(i).risk_score = PyInt(RealTotal(X), 100)
                /\ \A k \in Surfaced(X) : HasKey(bd, Card[k].Variable[1])
                /\ \A key \in Keys(bd) \ {"Base Score"} :
                      \E k \in Surfaced(X) :
                          /\ Card[k].Variable[1] = key
                          /\ Lookup(bd, key) = PyInt(Contribution(X, k), 100)

\* A normal trained result under a scorecard with a row that is no feature,
\* for a claim with a contribution of 0.25 points in absolute value: the
\* total moves, the breakdown does not show it.
C22_Witness ==
    \E i \in Scored :
        /\ NormalAt(i)
        /\ \E k \in RowsIn(XAt(i)) :
              /\ Contribution(XAt(i), k) # 0
              /\ Abs(Contribution(XAt(i), k)) <= 50
              /\ ~HasKey(ResultAt(i).scorecard_breakdown, Card[k].Variable[1])
        /\ Surfaced(XAt(i)) # {}

\* A normal result under a scorecard one row of which names no feature.
C22_WitnessSkipped ==
    \E i \in Scored :
        /\ NormalAt(i)
        /\ RowsIn(XAt(i)) # 1..Len(Card)

-----------------------------------------------------------------------------
(* C23 *)

\* The integer r is the real x (in hundredths) rounded to the nearest integer.
Nearest(r, x) == Abs(100 * r - x) <= 50

\* The integer r is the real x (in hundredths) cut at the decimal point.
Truncated(r, x) ==
    IF x >= 0 THEN 100 * r <= x /\ x < 100 * r + 100
    ELSE 100 * r >= x /\ x > 100 * r - 100

\* The blended probability of the claim at i before rounding, in 1/10000.
RealProbability(i) ==
    Blend(PredictProba(artifacts.logistic_model, XAt(i), FALSE).result,
          PredictProba(artifacts.xgb_model, XAt(i), TRUE).result)

\* C23 as stated: on a normal trained result, risk_score is the real total
\* rounded to the nearest integer, each breakdown value is a real contribution
\* (or base_points) rounded to the nearest integer, and fraud_probability is
\* the blended probability rounded to 3 decimals.
C23_AsStated ==
    \A i \in Scored :
        NormalAt(i) =>
            LET X  == XAt(i)
                bd == ResultAt(i).scorecard_breakdown
            IN  /\ Nearest(ResultAt(i).risk_score, RealTotal(X))
                /\ Nearest(Lookup(bd, "Base Score"), artifacts.scorecard_dict.base_points)
                /\ \A key \in Keys(bd) \ {"Base Score"} :
                      \E k \in Surfaced(X) :
                          /\ Card[k].Variable[1] = key
                          /\ Nearest(Lookup(bd, key), Contribution(X, k))
                /\ Abs(10 * ResultAt(i).fraud_probability - RealProbability(i)) <= 5

\* C23: on a normal trained result, risk_score is the real total cut at the
\* decimal point (toward zero), each breakdown value is a real contribution
\* (or base_points) cut the same way, and fraud_probability is the blended
\* probability rounded to 3 decimals.
C23_Truncation ==
    \A i \in Scored :
        NormalAt(i) =>
            LET X  == XAt(i)
                bd == ResultAt(i).scorecard_breakdown
            IN  /\ Truncated(ResultAt(i).risk_score, RealTotal(X))
                /\ Truncated(Lookup(bd, "Base Score"),
                             artifacts.scorecard_dict.base_points)
                /\ \A key \in Keys(bd) \ {"Base Score"} :
                      \E k \in Surfaced(X) :
                          /\ Card[k].Variable[1] = key
                          /\ Truncated(Lookup(bd, key), Contribution(X, k))
                /\ Abs(10 * ResultAt(i).fraud_probability - RealProbability(i)) <= 5

\* A normal trained result whose real total has a fractional part above one
\* half, with a negative contribution of fractional part above one half in
\* the breakdown, and a probability that the rounding changed.
C23_Witness ==
    \E i \in Scored :
        /\ NormalAt(i)
        /\ RealTotal(XAt(i)) > 0
        /\ RealTotal(XAt(i)) % 100 > 50
        /\ \E k \in Surfaced(XAt(i)) :
              /\ Contribution(XAt(i), k) < 0
              /\ (-Contribution(XAt(i), k)) % 100 > 50
              /\ Lookup(ResultAt(i).scorecard_breakdown, Card[k].Variable[1])
                    = -((-Contribution(XAt(i), k)) \div 100)
        /\ RealProbability(i) % 10 # 0

-----------------------------------------------------------------------------
(* C24 *)

\* The messages of the rules that hold of the claim record, in the order
\* urgency, policy complexity, premium make, young driver, vehicle value,
\* rural area.
TriggeredMessages(c) ==
    (IF IsUrgent(c) THEN <<ExplainerText[1]>> ELSE <<>>)
    \o (IF IsAllPerils(c) THEN <<ExplainerText[2]>> ELSE <<>>)
    \o (IF IsPremiumMake(c) THEN <<ExplainerText[3]>> ELSE <<>>)
    \o (IF IsYoung(c) THEN <<ExplainerText[4]>> ELSE <<>>)
    \o (IF IsLuxuryPrice(c) THEN <<ExplainerText[5]>> ELSE <<>>)
    \o (IF IsRural(c) THEN <<ExplainerText[6]>> ELSE <<>>)

GenericMessage == "Combinacion de factores genera riesgo elevado"

\* C24: on a normal trained result, key_risk_factors is the first 4 (at
\* most) of the messages of the triggered rules in the fixed order; when no
\* rule triggered it is the generic message alone if the blended probability
\* is above 0.3 and empty otherwise, and the generic message appears in no
\* other case.
C24_FactorList ==
    \A i \in Scored :
        NormalAt(i) =>
            LET triggered == TriggeredMessages(ClaimAt(i))
                factors   == ResultAt(i).key_risk_factors
            IN  /\ triggered # <<>> =>
                      factors = SubSeq(triggered, 1, Min(4, Len(triggered)))
                /\ (triggered = <<>> /\ RealProbability(i) > 3000) =>
                      factors = <<GenericMessage>>
                /\ (triggered = <<>> /\ RealProbability(i) <= 3000) =>
                      factors = <<>>

\* No rule holds of the claim, the probability is above 0.3, and the generic
\* message is the only factor.
C24_Witness ==
    \E i \in Scored :
        /\ NormalAt(i)
        /\ TriggeredMessages(ClaimAt(i)) = <<>>
        /\ RealProbability(i) > 3000
        /\ ResultAt(i).key_risk_factors = <<GenericMessage>>

\* Five rules hold of the claim, with a probability above 0.3: the first four
\* messages are listed and the generic one is not.
C24_WitnessCapped ==
    \E i \in Scored :
        /\ NormalAt(i)
        /\ Len(TriggeredMessages(ClaimAt(i))) >= 5
        /\ RealProbability(i) > 3000
        /\ ResultAt(i).key_risk_factors = SubSeq(TriggeredMessages(ClaimAt(i)), 1, 4)

-----------------------------------------------------------------------------
(* C25 *)

\* The flag that goes with each of the first five rules of the explainer.
FlagOfRule ==
    << <<"Claim_Urgency", "">>, <<"Complex_Policy", "">>, <<"Premium_Make", "">>,
       <<"Young_Driver", "">>, <<"Luxury_Vehicle", "">> >>

\* Where both computations succeed on the claim record, each of the five
\* rules of the explainer holds iff its flag is 1.
RulesMatchFlags(c) ==
    (~FlagsRaise(c) /\ ~ExplainerRaises(c)) =>
        \A k \in 1..5 :
            ExplainerRules(c)[k]
                <=> (DerivedColumns(c, artifacts.woe_mappings)[FlagOfRule[k]] = Flag(TRUE))

\* C25 as stated: for every claim record handed to the trained engine, a
\* missing or None field included, the flag derivation fails iff the explainer
\* fails, and where they succeed each rule has the truth value of its flag.
C25_AsStated ==
    \A i \in Scored :
        OnTrained =>
            /\ FlagsRaise(ClaimAt(i)) <=> ExplainerRaises(ClaimAt(i))
            /\ RulesMatchFlags(ClaimAt(i))

-----------------------------------------------------------------------------
(* C26 *)

\* Sum of the weights of the fallback rules that hold of the claim record,
\* in thousandths.
FiredWeight(c) ==
    (IF IsUrgent(c) THEN 180 ELSE 0)
    + (IF IsAllPerils(c) THEN 90 ELSE 0)
    + (IF IsPremiumMake(c) THEN 120 ELSE 0)
    + (IF IsYoung(c) THEN 70 ELSE 0)
    + (IF IsLuxuryPrice(c) THEN 80 ELSE 0)
    + (IF IsRural(c) THEN 50 ELSE 0)

\* C26: every result of the fallback engine has fraud_probability equal to
\* 0.035 plus the weights of the rules that fired, the clamp changing
\* nothing, so it lies in [0.035, 0.625], away from 0.005 and 0.95.
C26_ClampIdle ==
    \A i \in Scored :
        (OnFallback /\ ReturnedAt(i)) =>
            /\ ResultAt(i).fraud_probability = 35 + FiredWeight(ClaimAt(i))
            /\ ResultAt(i).fraud_probability >= 35
            /\ ResultAt(i).fraud_probability <= 625
            /\ ResultAt(i).fraud_probability \notin {5, 950}

\* The fallback engine has scored a claim on which all six rules fire: 0.625.
C26_Witness ==
    \E i \in Scored :
        /\ OnFallback
        /\ ReturnedAt(i)
        /\ FiredWeight(ClaimAt(i)) = 590
        /\ ResultAt(i).fraud_probability = 625

-----------------------------------------------------------------------------
(* C27 *)

\* The fallback rules that hold of the claim record.
FiredSet(c) ==
    {r \in 1..6 :
        \/ r = 1 /\ IsUrgent(c)
        \/ r = 2 /\ IsAllPerils(c)
        \/ r = 3 /\ IsPremiumMake(c)
        \/ r = 4 /\ IsYoung(c)
        \/ r = 5 /\ IsLuxuryPrice(c)
        \/ r = 6 /\ IsRural(c)}

\* One complete claim for each of the 64 sets of rules.
RuleClaims ==
    {MkClaim(d, p, m, a, v, r, "2 years") :
        d \in {"1 to 7", "more than 30"},
        p \in {"Sport - All Perils", "Sedan - Collision"},
        m \in {"BMW", "Honda"}, a \in {"21 to 25", "31 to 35"},
        v \in {"more than 69000", "20000 to 29000"}, r \in {"Rural", "Urban"}}

Severity(risk_level) ==
    CASE risk_level = "LOW" -> 0 [] risk_level = "MEDIUM" -> 1 [] risk_level = "HIGH" -> 2

\* C27: for a claim A scored by the fallback engine and any claim B whose
\* fired rules are among those of A, A has a fraud_probability not below
\* B's, a risk_score not above B's and a tier not less severe than B's.
C27_Monotone ==
    \A i \in Scored :
        (OnFallback /\ ReturnedAt(i)) =>
            \A B \in RuleClaims :
                FiredSet(B) \subseteq FiredSet(ClaimAt(i)) =>
                    LET a == ResultAt(i)
                        b == FallbackCalculateFraudScore(B).result
                    IN  /\ a.fraud_probability >= b.fraud_probability
                        /\ a.risk_score <= b.risk_score
                        /\ Severity(a.risk_level) >= Severity(b.risk_level)

\* A claim with a missing field scored HIGH by the fallback engine, some
\* claim with fewer fired rules being scored MEDIUM and another LOW.
C27_Witness ==
    \E i \in Scored :
        /\ OnFallback
        /\ ReturnedAt(i)
        /\ DOMAIN ClaimAt(i) # Fields
        /\ ResultAt(i).risk_level = "HIGH"
        /\ \E B \in RuleClaims :
              /\ FiredSet(B) \subseteq FiredSet(ClaimAt(i))
              /\ FiredSet(B) # FiredSet(ClaimAt(i))
              /\ FallbackCalculateFraudScore(B).result.risk_level = "MEDIUM"
        /\ \E B \in RuleClaims :
              /\ FiredSet(B) \subseteq FiredSet(ClaimAt(i))
              /\ FallbackCalculateFraudScore(B).result.risk_level = "LOW"

-----------------------------------------------------------------------------
(* C28 *)

\* C28: a fallback result is HIGH only if the urgent-claim rule and the
\* premium-make rule fired, with at least four rules fired in all; a HIGH
\* fallback result lists exactly 4 factors; every fallback risk_score lies in
\* 557..677.
C28_HighNeeds ==
    \A i \in Scored :
        (OnFallback /\ ReturnedAt(i)) =>
            /\ ResultAt(i).risk_score >= 557
            /\ ResultAt(i).risk_score <= 677
            /\ ResultAt(i).risk_level = "HIGH" =>
                  /\ IsUrgent(ClaimAt(i))
                  /\ IsPremiumMake(ClaimAt(i))
                  /\ Cardinality(FiredSet(ClaimAt(i))) >= 4
                  /\ Len(ResultAt(i).key_risk_factors) = 4

\* A HIGH fallback result with exactly four rules fired, urgency and premium
\* make among them.
C28_Witness ==
    \E i \in Scored :
        /\ OnFallback
        /\ ReturnedAt(i)
        /\ ResultAt(i).risk_level = "HIGH"
        /\ Cardinality(FiredSet(ClaimAt(i))) = 4
        /\ {1, 3} \subseteq FiredSet(ClaimAt(i))

\* The upper end of the range: a fallback result on which no rule fired.
C28_WitnessRange ==
    \E i \in Scored :
        /\ OnFallback
        /\ ReturnedAt(i)
        /\ FiredSet(ClaimAt(i)) = {}
        /\ ResultAt(i).risk_score = 677

-----------------------------------------------------------------------------
(* C29 *)

\* C29 as stated: on a normal trained result every scorecard row whose
\* contribution is above 0.5 in absolute value has an entry of its own in the
\* breakdown: the breakdown has one entry per such row beside "Base Score",
\* and the entry of a row carries the contribution of that row.
C29_AsStated ==
    \A i \in Scored :
        NormalAt(i) =>
            LET X  == XAt(i)
                bd == ResultAt(i).scorecard_breakdown
            IN  /\ Len(bd) = 1 + Cardinality(Surfaced(X))
                /\ \A k \in Surfaced(X) :
                      \E j \in 2..Len(bd) :
                          bd[j] = <<Card[k].Variable[1], PyInt(Contribution(X, k), 100)>>

-----------------------------------------------------------------------------
(* C30 *)

\* C30 as stated: when the import of the models module failed, the startup
\* handler and GET /health complete without raising and report fallback
\* mode, and the process goes on serving.
C30_AsStated ==
    ~ENGINE_AVAILABLE =>
        /\ phase # "exited"
        /\ call.op = "startup_event" =>
              call.response = Returned("Running in fallback mode (business rules)")
        /\ call.op = "health_check" =>
              /\ call.response.status = 200
              /\ call.response.body.model_status = "Fallback Mode"

=============================================================================
